---- MODULE Spec2Model ----
(***************************************************************************)
(* A model of the DNS message codec (header, labels, questions, resource   *)
(* records, messages) and of the recursive resolver built on it.           *)
(*                                                                         *)
(* Byte buffers are sequences of naturals in 0..255.  Rust indexes from 0, *)
(* TLA+ sequences from 1: At(b, i) is the Rust expression b[i].  A Rust    *)
(* String is modelled by the sequence of its UTF-8 bytes.  A function that *)
(* returns Result yields a record whose tag is "Ok" or "Err"; an index or  *)
(* slice out of range, or an unwrap() of an error, yields tag "Panic".     *)
(***************************************************************************)
EXTENDS Integers, Sequences, FiniteSets, TLC

VARIABLES
    \* header round trip: the header, the buffer, the two results
    hdr, hdest, hres, hparsed, hpc,
    \* label round trip: the labels, the buffer, the two results
    labels, ldest, lres, lparsed, lpc,
    \* resolve_labels: the message, the caller's labels, the loop's state
    rmsg, rinput, rlabels, iter_count, rres,
    \* ResourceRecord::parse: the buffer and the result
    rrbuf, rrres,
    \* Message::parse: the buffer and the result
    mbuf, mres,
    \* the resolver: the call stack of resolve_dns_inner, the value a call has
    \* just returned, the map shared by all calls, what main prints
    stack, ret, ns_map, outcome

hvars == <<hdr, hdest, hres, hparsed, hpc>>
lvars == <<labels, ldest, lres, lparsed, lpc>>
rvars == <<rmsg, rinput, rlabels, iter_count, rres>>
rrvars == <<rrbuf, rrres>>
mvars == <<mbuf, mres>>
dvars == <<stack, ret, ns_map, outcome>>
vars == <<hvars, lvars, rvars, rrvars, mvars, dvars>>

----------------------------------------------------------------------------
(* Bytes and bit operations                                                *)

\* let v = e; F(v): e is evaluated once, before F's body
Let(e, F(_)) == CHOOSE r \in {F(v) : v \in {e}} : TRUE

Pow2(n) == 2 ^ n

Bit(x, i) == (x \div Pow2(i)) % 2

RECURSIVE BitAndFrom(_, _, _)
BitAndFrom(a, b, i) ==
    IF i = 16 THEN 0
    ELSE Pow2(i) * Bit(a, i) * Bit(b, i) + BitAndFrom(a, b, i + 1)

\* a & b on unsigned values of at most 16 bits
BitAnd(a, b) == Let(<<a, b>>, LAMBDA p : BitAndFrom(p[1], p[2], 0))

\* a | b
BitOr(a, b) == Let(<<a, b>>, LAMBDA p : p[1] + p[2] - BitAndFrom(p[1], p[2], 0))

\* a ^ b
BitXor(a, b) == Let(<<a, b>>, LAMBDA p : p[1] + p[2] - 2 * BitAndFrom(p[1], p[2], 0))

\* x << n on a u8: the bits shifted out are dropped
Shl8(x, n) == (x * Pow2(n)) % 256

\* x >> n
Shr(x, n) == x \div Pow2(n)

\* u16::to_be_bytes
ToBe16(x) == <<(x \div 256) % 256, x % 256>>

\* u16::from_be_bytes
FromBe16(b0, b1) == b0 * 256 + b1

\* u32::from_be_bytes; the value is hi * 65536 + lo, kept as its two 16-bit
\* halves because it need not fit the model checker's integers
FromBe32(b0, b1, b2, b3) == [hi |-> FromBe16(b0, b1), lo |-> FromBe16(b2, b3)]

\* the Rust expression b[i]
At(b, i) == b[i + 1]

\* the Rust slice b[from..to]
Slice(b, from, to) == SubSeq(b, from + 1, to)

\* the Rust slice b[from..]
SliceFrom(b, from) == SubSeq(b, from + 1, Len(b))

\* vec![0u8; n]
Zeros(n) == [i \in 1..n |-> 0]

\* dest[i] = v
SetAt(dest, i, v) == [dest EXCEPT ![i + 1] = v]

BoolBit(f) == IF f THEN 1 ELSE 0

----------------------------------------------------------------------------
(* errors.rs                                                               *)

Generic == [tag |-> "Err", kind |-> "Generic"]
ParseError == [tag |-> "Err", kind |-> "ParseError"]
MarshalError == [tag |-> "Err", kind |-> "MarshalError"]
Panic == [tag |-> "Panic", kind |-> "panic"]
NotRun == [tag |-> "NotRun", kind |-> "none"]

----------------------------------------------------------------------------
(* message/header.rs                                                       *)

HEADER_LENGTH == 12

StandardQuery == [op |-> "StandardQuery", v |-> 0]
InverseQuery == [op |-> "InverseQuery", v |-> 0]
StatusRequest == [op |-> "StatusRequest", v |-> 0]
ReservedOp(n) == [op |-> "Reserved", v |-> n]

\* impl From<u8> for Opcode
OpcodeFrom(value) ==
    CASE value = 0 -> StandardQuery
      [] value = 1 -> InverseQuery
      [] value = 2 -> StatusRequest
      [] OTHER -> ReservedOp(value)

\* impl Into<u8> for Opcode
OpcodeInto(o) ==
    CASE o.op = "StandardQuery" -> 0
      [] o.op = "InverseQuery" -> 1
      [] o.op = "StatusRequest" -> 2
      [] OTHER -> o.v

NoError == [rc |-> "NoError", v |-> 0]
FormatError == [rc |-> "FormatError", v |-> 0]
ServerFailure == [rc |-> "ServerFailure", v |-> 0]
NameError == [rc |-> "NameError", v |-> 0]
NotImpemented == [rc |-> "NotImpemented", v |-> 0]
Refused == [rc |-> "Refused", v |-> 0]
ReservedRc(n) == [rc |-> "Reserved", v |-> n]

\* impl From<u8> for ResponseCode
ResponseCodeFrom(value) ==
    CASE value = 0 -> NoError
      [] value = 1 -> FormatError
      [] value = 2 -> ServerFailure
      [] value = 3 -> NameError
      [] value = 4 -> NotImpemented
      [] value = 5 -> Refused
      [] OTHER -> ReservedRc(value)

\* impl Into<u8> for ResponseCode
ResponseCodeInto(r) ==
    CASE r.rc = "NoError" -> 0
      [] r.rc = "FormatError" -> 1
      [] r.rc = "ServerFailure" -> 2
      [] r.rc = "NameError" -> 3
      [] r.rc = "NotImpemented" -> 4
      [] r.rc = "Refused" -> 5
      [] OTHER -> r.v

\* Header::default() with the given fields
Header(id, qr, opcode, aa, tc, rd, ra, rcode, qdcount, ancount, arcount, nscount) ==
    [id |-> id, qr |-> qr, opcode |-> opcode, aa |-> aa, tc |-> tc, rd |-> rd,
     ra |-> ra, rcode |-> rcode, qdcount |-> qdcount, ancount |-> ancount,
     arcount |-> arcount, nscount |-> nscount]

HeaderDefault ==
    Header(0, FALSE, StandardQuery, FALSE, FALSE, FALSE, FALSE, NoError, 0, 0, 0, 0)

\* dest[2] as Header::write assembles it
HeaderByte2(h) ==
    BitOr(BitOr(BitOr(BitOr(Shl8(BoolBit(h.qr), 7), Shl8(OpcodeInto(h.opcode), 3)),
                      Shl8(BoolBit(h.aa), 2)),
                Shl8(BoolBit(h.tc), 1)),
          BoolBit(h.rd))

\* dest[3] as Header::write assembles it
HeaderByte3(h) == BitOr(Shl8(BoolBit(h.ra), 7), ResponseCodeInto(h.rcode))

\* Header::write: the result and the destination buffer afterwards
HeaderWrite(h, dest) ==
    IF Len(dest) < 12 THEN [res |-> MarshalError, dest |-> dest]
    ELSE [res |-> [tag |-> "Ok", kind |-> "unit"],
          dest |-> ToBe16(h.id) \o <<HeaderByte2(h), HeaderByte3(h)>>
                   \o ToBe16(h.qdcount) \o ToBe16(h.ancount)
                   \o ToBe16(h.arcount) \o ToBe16(h.nscount)
                   \o SliceFrom(dest, 12)]

\* the opcode expression of Header::parse: src[2] & 0x78 >> 3, in which the
\* shift binds tighter than the mask
ParseOpcodeBits(b2) == BitAnd(b2, Shr(120, 3))

\* Header::parse
HeaderParse(src) ==
    IF Len(src) < 12 THEN ParseError
    ELSE [tag |-> "Ok", kind |-> "header",
          hdr |-> Header(FromBe16(At(src, 0), At(src, 1)),
                         BitAnd(At(src, 2), 128) # 0,
                         OpcodeFrom(ParseOpcodeBits(At(src, 2))),
                         BitAnd(At(src, 2), 4) # 0,
                         BitAnd(At(src, 2), 2) # 0,
                         BitAnd(At(src, 2), 1) # 0,
                         BitAnd(At(src, 3), 128) # 0,
                         ResponseCodeFrom(BitAnd(At(src, 3), 15)),
                         FromBe16(At(src, 4), At(src, 5)),
                         FromBe16(At(src, 6), At(src, 7)),
                         FromBe16(At(src, 8), At(src, 9)),
                         FromBe16(At(src, 10), At(src, 11)))]

----------------------------------------------------------------------------
(* message/label.rs                                                        *)

\* Label::L(String) and Label::P(usize)
L(s) == [tag |-> "L", s |-> s, offset |-> 0]
P(offset) == [tag |-> "P", s |-> <<>>, offset |-> offset]

\* U+FFFD REPLACEMENT CHARACTER in UTF-8
Replacement == <<239, 191, 189>>

\* b[i], or 0 past the end
SafeGet(b, i) == IF i < Len(b) THEN At(b, i) ELSE 0

IsCont(x) == BitAnd(x, 192) = 128

\* the length of the well-formed UTF-8 sequence starting at b[i] (0 if none)
\* and the length of the ill-formed run that a decoder replaces otherwise
Utf8Step(b, i) ==
    LET b0 == At(b, i)
        b1 == SafeGet(b, i + 1)
        b2 == SafeGet(b, i + 2)
        b3 == SafeGet(b, i + 3)
        second3 == \/ (b0 = 224 /\ b1 >= 160 /\ b1 <= 191)
                   \/ (b0 >= 225 /\ b0 <= 236 /\ b1 >= 128 /\ b1 <= 191)
                   \/ (b0 = 237 /\ b1 >= 128 /\ b1 <= 159)
                   \/ (b0 >= 238 /\ b0 <= 239 /\ b1 >= 128 /\ b1 <= 191)
        second4 == \/ (b0 = 240 /\ b1 >= 144 /\ b1 <= 191)
                   \/ (b0 >= 241 /\ b0 <= 243 /\ b1 >= 128 /\ b1 <= 191)
                   \/ (b0 = 244 /\ b1 >= 128 /\ b1 <= 143)
    IN  CASE b0 < 128 -> [ok |-> TRUE, n |-> 1]
          [] b0 >= 194 /\ b0 <= 223 ->
                IF IsCont(b1) THEN [ok |-> TRUE, n |-> 2] ELSE [ok |-> FALSE, n |-> 1]
          [] b0 >= 224 /\ b0 <= 239 ->
                IF ~second3 THEN [ok |-> FALSE, n |-> 1]
                ELSE IF ~IsCont(b2) THEN [ok |-> FALSE, n |-> 2]
                ELSE [ok |-> TRUE, n |-> 3]
          [] b0 >= 240 /\ b0 <= 244 ->
                IF ~second4 THEN [ok |-> FALSE, n |-> 1]
                ELSE IF ~IsCont(b2) THEN [ok |-> FALSE, n |-> 2]
                ELSE IF ~IsCont(b3) THEN [ok |-> FALSE, n |-> 3]
                ELSE [ok |-> TRUE, n |-> 4]
          [] OTHER -> [ok |-> FALSE, n |-> 1]

RECURSIVE Utf8LossyFrom(_, _)
Utf8LossyFrom(b, i) ==
    IF i >= Len(b) THEN <<>>
    ELSE Let(Utf8Step(b, i),
             LAMBDA st : (IF st.ok THEN Slice(b, i, i + st.n) ELSE Replacement)
                            \o Utf8LossyFrom(b, i + st.n))

\* String::from_utf8_lossy(b).into_owned(), as the bytes of the String
FromUtf8Lossy(b) == Let(b, LAMBDA v : Utf8LossyFrom(v, 0))

\* the while loop of parse_label_bytes from index idx on
RECURSIVE ParseLabelLoop(_, _, _)
ParseLabelLoop(b, idx, result) ==
    IF idx >= Len(b) THEN ParseError
    ELSE IF BitAnd(At(b, idx), 192) = 192 THEN
        IF idx + 1 >= Len(b) THEN ParseError
        ELSE [tag |-> "Ok", kind |-> "labels", n |-> idx + 2,
              labels |-> Append(result,
                                P(FromBe16(BitXor(At(b, idx), 192), At(b, idx + 1))))]
    ELSE IF At(b, idx) = 0 THEN
        [tag |-> "Ok", kind |-> "labels", n |-> idx + 1, labels |-> result]
    ELSE LET count == At(b, idx) IN
         IF idx + count >= Len(b) THEN ParseError
         ELSE ParseLabelLoop(b, idx + count + 1,
                  Append(result, L(FromUtf8Lossy(Slice(b, idx + 1, idx + count + 1)))))

\* parse_label_bytes
ParseLabelBytes(b) == Let(b, LAMBDA v : ParseLabelLoop(v, 0, <<>>))

\* the inner loop of write_labels over s.as_bytes(), from byte k of s on
RECURSIVE WriteStrBytes(_, _, _, _)
WriteStrBytes(s, k, dest, idx) ==
    IF k > Len(s) THEN [res |-> "Ok", dest |-> dest, idx |-> idx]
    ELSE IF Len(dest) <= idx THEN [res |-> "Err", dest |-> dest, idx |-> idx]
    ELSE Let(SetAt(dest, idx, s[k]), LAMBDA d : WriteStrBytes(s, k + 1, d, idx + 1))

RECURSIVE WriteLabelsLoop(_, _, _, _)

\* the for loop of write_labels after the bytes of label k, which gave w
LabelWritten(ls, k, w) ==
    IF w.res = "Err" THEN [res |-> MarshalError, dest |-> w.dest]
    ELSE WriteLabelsLoop(ls, k + 1, w.dest, w.idx)

\* the for loop of write_labels from label k on, then its tail
WriteLabelsLoop(ls, k, dest, idx) ==
    IF k > Len(ls) THEN
        \* if !wrote_offset { dest[idx] = 0; idx += 1 }
        IF idx >= Len(dest) THEN [res |-> Panic, dest |-> dest]
        ELSE [res |-> [tag |-> "Ok", kind |-> "usize", n |-> idx + 1],
              dest |-> SetAt(dest, idx, 0)]
    ELSE IF Len(dest) <= idx THEN [res |-> MarshalError, dest |-> dest]
    ELSE IF ls[k].tag = "L" THEN
        Let(WriteStrBytes(ls[k].s, 1, SetAt(dest, idx, Len(ls[k].s) % 256), idx + 1),
            LAMBDA w : LabelWritten(ls, k, w))
    ELSE
        LET offset_b == ToBe16(ls[k].offset % 65536)
            d1 == SetAt(dest, idx, BitOr(192, offset_b[1]))
        IN  IF Len(dest) <= idx + 1 THEN [res |-> MarshalError, dest |-> d1]
            ELSE [res |-> [tag |-> "Ok", kind |-> "usize", n |-> idx + 2],
                  dest |-> SetAt(d1, idx + 1, offset_b[2])]

\* write_labels: the result and the destination buffer afterwards
WriteLabels(ls, dest) ==
    IF Len(ls) = 0 THEN [res |-> [tag |-> "Ok", kind |-> "usize", n |-> 0], dest |-> dest]
    ELSE Let(dest, LAMBDA d : WriteLabelsLoop(ls, 1, d, 0))

MAX_LABEL_RESOLVE_DEPTH == 10

\* strs.join(".")
RECURSIVE JoinDots(_)
JoinDots(strs) ==
    IF strs = <<>> THEN <<>>
    ELSE IF Len(strs) = 1 THEN strs[1]
    ELSE strs[1] \o <<46>> \o JoinDots(Tail(strs))

\* the literal labels of a sequence joined with '.'
JoinLabels(ls) ==
    LET lits == SelectSeq(ls, LAMBDA l : l.tag = "L") IN
    JoinDots([k \in 1..Len(lits) |-> lits[k].s])

Running == [tag |-> "Running", kind |-> "none"]

\* the state in which resolve_labels starts on the caller's labels
ResolveStart(ls) == [labels |-> ls, iter_count |-> 0, res |-> Running]

\* what resolve_labels returns once its loop has ended
ResolveDone(ls, n) ==
    [labels |-> ls, iter_count |-> n,
     res |-> [tag |-> "Ok", kind |-> "domain", domain |-> JoinLabels(ls)]]

\* the bound tested one iteration late
ResolveBoundHitLate(n) == n = MAX_LABEL_RESOLVE_DEPTH + 1

\* the bound on pointer follows as the loop of resolve_labels tests it
ResolveBoundHit(n) == n = MAX_LABEL_RESOLVE_DEPTH

\* the end of an iteration that follows a pointer: next is what
\* parse_label_bytes(&msg[offset..]) returned
ResolveFollowed(rest, n, next) ==
    IF next.tag # "Ok" THEN [labels |-> rest, iter_count |-> n, res |-> ParseError]
    ELSE [labels |-> rest \o next.labels, iter_count |-> n + 1, res |-> Running]

\* one iteration of the while loop of resolve_labels; when the loop ends, the
\* join that follows it
ResolveStep(msg, st) ==
    IF st.labels = <<>> THEN ResolveDone(st.labels, st.iter_count)
    ELSE
        LET label == st.labels[Len(st.labels)]
            rest == SubSeq(st.labels, 1, Len(st.labels) - 1)
        IN  IF ResolveBoundHit(st.iter_count) THEN
                [labels |-> rest, iter_count |-> st.iter_count, res |-> ParseError]
            ELSE IF label.tag = "L" THEN ResolveDone(st.labels, st.iter_count)
            ELSE IF label.offset > Len(msg) THEN
                \* &msg[offset..] with offset beyond the end
                [labels |-> rest, iter_count |-> st.iter_count, res |-> Panic]
            ELSE
                Let(ParseLabelBytes(SliceFrom(msg, label.offset)),
                    LAMBDA next : ResolveFollowed(rest, st.iter_count, next))

RECURSIVE ResolveRun(_, _)
ResolveRun(msg, st) ==
    IF st.res.tag # "Running" THEN st
    ELSE Let(ResolveStep(msg, st), LAMBDA next : ResolveRun(msg, next))

\* resolve_labels(msg, &mut labels): the result and the labels afterwards
ResolveLabels(msg, ls) == Let(msg, LAMBDA m : ResolveRun(m, ResolveStart(ls)))

\* the index of the first '.' of domain from byte s on, one past the end of
\* domain when there is none
SegmentEnd(domain, s) ==
    CHOOSE j \in s..(Len(domain) + 1) :
        /\ j = Len(domain) + 1 \/ domain[j] = 46
        /\ \A i \in s..(j - 1) : domain[i] # 46

\* the segments of domain.split('.') from byte s on
RECURSIVE SplitDots(_, _)
SplitDots(domain, s) ==
    Let(SegmentEnd(domain, s),
        LAMBDA e : <<SubSeq(domain, s, e - 1)>>
                   \o (IF e > Len(domain) THEN <<>> ELSE SplitDots(domain, e + 1)))

\* domain_to_labels after domain.split('.'), which gave parts
LabelsOf(parts) ==
    IF \E k \in 1..Len(parts) : Len(parts[k]) > 63 THEN Generic
    ELSE [tag |-> "Ok", kind |-> "labels", n |-> 0,
          labels |-> [k \in 1..Len(parts) |-> L(parts[k])]]

\* domain_to_labels
DomainToLabels(domain) == Let(SplitDots(domain, 1), LAMBDA parts : LabelsOf(parts))

----------------------------------------------------------------------------
(* message/question.rs                                                     *)

\* Question::parse after its call of parse_label_bytes, which returned p
QuestionFields(b, p) ==
    IF p.tag # "Ok" THEN p
    ELSE IF Len(b) <= p.n + 3 THEN ParseError
    ELSE [tag |-> "Ok", kind |-> "question", n |-> p.n + 4,
          item |-> [qname |-> p.labels,
                    qtype |-> FromBe16(At(b, p.n), At(b, p.n + 1)),
                    qclass |-> FromBe16(At(b, p.n + 2), At(b, p.n + 3))]]

\* Question::parse
QuestionParse(b) == Let(ParseLabelBytes(b), LAMBDA p : QuestionFields(b, p))

\* Question::write after its call of write_labels, which returned w
QuestionWritten(q, w) ==
    IF w.res.tag # "Ok" THEN w
    ELSE IF Len(w.dest) <= w.res.n + 3 THEN [res |-> MarshalError, dest |-> w.dest]
    ELSE
        [res |-> [tag |-> "Ok", kind |-> "usize", n |-> w.res.n + 4],
         dest |-> Slice(w.dest, 0, w.res.n) \o ToBe16(q.qtype) \o ToBe16(q.qclass)
                  \o SliceFrom(w.dest, w.res.n + 4)]

\* Question::write: the result and the destination buffer afterwards
QuestionWrite(q, dest) ==
    Let(WriteLabels(q.qname, dest), LAMBDA w : QuestionWritten(q, w))

----------------------------------------------------------------------------
(* message/rr.rs                                                           *)

\* the test of ResourceRecord::parse that the declared rdata is present
RdataMissing(len, offset, rdlength) == len < offset + 9 + rdlength

\* ResourceRecord::parse after its call of parse_label_bytes, which returned p
ResourceRecordFields(b, p) ==
    IF p.tag # "Ok" THEN p
    ELSE IF p.n + 9 >= Len(b) THEN ParseError
    ELSE
        LET offset == p.n
            rdlength == FromBe16(At(b, offset + 8), At(b, offset + 9))
            rr(rdata) ==
                [name |-> p.labels,
                 t |-> FromBe16(At(b, offset), At(b, offset + 1)),
                 class |-> FromBe16(At(b, offset + 2), At(b, offset + 3)),
                 ttl |-> FromBe32(At(b, offset + 4), At(b, offset + 5),
                                  At(b, offset + 6), At(b, offset + 7)),
                 rdlength |-> rdlength, rdata |-> rdata]
        IN  IF RdataMissing(Len(b), offset, rdlength) THEN ParseError
            ELSE IF rdlength = 0 THEN
                [tag |-> "Ok", kind |-> "rr", n |-> offset + 9 + 1, item |-> rr(<<>>)]
            ELSE IF offset + 10 + rdlength > Len(b) THEN
                \* b[offset + 10..offset + 10 + rdlength] ends beyond the buffer
                Panic
            ELSE
                [tag |-> "Ok", kind |-> "rr", n |-> offset + 9 + rdlength + 1,
                 item |-> rr(Slice(b, offset + 10, offset + 10 + rdlength))]

\* ResourceRecord::parse
ResourceRecordParse(b) ==
    Let(ParseLabelBytes(b), LAMBDA p : ResourceRecordFields(b, p))

----------------------------------------------------------------------------
(* message/mod.rs                                                          *)

\* a parse loop that stops at an entry that fails and keeps what it has
EntryFailedStop(r, offset, acc) ==
    [tag |-> "Ok", kind |-> "entries", n |-> offset, items |-> acc]

\* what a parse loop of Message::parse does when an entry fails to parse
EntryFailed(r, offset, acc) == r

RECURSIVE ParseEntries(_, _, _, _, _)

\* the body of a parse loop once the entry at offset has been parsed into r
EntryParsed(b, offset, count, isQuestion, acc, r) ==
    IF r.tag # "Ok" THEN EntryFailed(r, offset, acc)
    ELSE ParseEntries(b, offset + r.n, count - 1, isQuestion, Append(acc, r.item))

\* one of the four parse loops of Message::parse: count entries from offset on
ParseEntries(b, offset, count, isQuestion, acc) ==
    IF count = 0 THEN [tag |-> "Ok", kind |-> "entries", n |-> offset, items |-> acc]
    ELSE IF offset > Len(b) THEN Panic
    ELSE Let(SliceFrom(b, offset),
             LAMBDA rest :
                Let(IF isQuestion THEN QuestionParse(rest) ELSE ResourceRecordParse(rest),
                    LAMBDA r : EntryParsed(b, offset, count, isQuestion, acc, r)))

RECURSIVE ResolveEntries(_, _, _, _)

\* the body of a resolve loop once resolve_labels has returned r for entry k,
\* leaving r.labels in the entry's qname (a question) or name (a record)
EntryResolved(b, items, k, isQuestion, r) ==
    IF r.res.tag # "Ok" THEN r.res
    ELSE ResolveEntries(b,
                        IF isQuestion THEN [items EXCEPT ![k].qname = r.labels]
                        ELSE [items EXCEPT ![k].name = r.labels],
                        k + 1, isQuestion)

\* one of the four resolve loops of Message::parse: the names of the entries
\* from entry k on are resolved against the whole buffer
ResolveEntries(b, items, k, isQuestion) ==
    IF k > Len(items) THEN [tag |-> "Ok", kind |-> "entries", items |-> items]
    ELSE Let(ResolveLabels(b, IF isQuestion THEN items[k].qname ELSE items[k].name),
             LAMBDA r : EntryResolved(b, items, k, isQuestion, r))

RECURSIVE ParseSections(_, _, _, _, _)

SectionParsed(b, counts, k, acc, sec) ==
    IF sec.tag # "Ok" THEN sec
    ELSE ParseSections(b, sec.n, counts, k + 1, Append(acc, sec.items))

\* the four parse loops of Message::parse in their order, from loop k on:
\* counts holds qdcount, ancount, arcount, nscount
ParseSections(b, offset, counts, k, acc) ==
    IF k > 4 THEN [tag |-> "Ok", kind |-> "sections", n |-> offset, lists |-> acc]
    ELSE Let(ParseEntries(b, offset, counts[k], k = 1, <<>>),
             LAMBDA sec : SectionParsed(b, counts, k, acc, sec))

RECURSIVE ResolveSections(_, _, _)

SectionResolved(b, lists, k, sec) ==
    IF sec.tag # "Ok" THEN sec
    ELSE ResolveSections(b, [lists EXCEPT ![k] = sec.items], k + 1)

\* the four resolve loops of Message::parse in their order, from loop k on
ResolveSections(b, lists, k) ==
    IF k > 4 THEN [tag |-> "Ok", kind |-> "sections", lists |-> lists]
    ELSE Let(ResolveEntries(b, lists[k], 1, k = 1),
             LAMBDA sec : SectionResolved(b, lists, k, sec))

\* the value Message::parse returns after its second pass
MessageResolved(h, n, resolved) ==
    IF resolved.tag # "Ok" THEN resolved
    ELSE [tag |-> "Ok", kind |-> "message", n |-> n,
          msg |-> [hdr |-> h, qd |-> resolved.lists[1], an |-> resolved.lists[2],
                   ar |-> resolved.lists[3], ns |-> resolved.lists[4]]]

\* Message::parse after its first pass, which returned parsed
MessageParsed(b, h, parsed) ==
    IF parsed.tag # "Ok" THEN parsed
    ELSE Let(ResolveSections(b, parsed.lists, 1),
             LAMBDA resolved : MessageResolved(h, parsed.n, resolved))

\* Message::parse after Header::parse, which returned h
MessageBody(b, h) ==
    IF h.tag # "Ok" THEN h
    ELSE Let(ParseSections(b, HEADER_LENGTH,
                           <<h.hdr.qdcount, h.hdr.ancount, h.hdr.arcount, h.hdr.nscount>>,
                           1, <<>>),
             LAMBDA parsed : MessageParsed(b, h.hdr, parsed))

\* Message::parse
MessageParse(b) == Let(HeaderParse(b), LAMBDA h : MessageBody(b, h))

RECURSIVE WriteQuestions(_, _, _, _)

\* the loop of Message::write after q.write(&mut dest[offset..]) on question
\* k, which returned w
QuestionAdded(qd, k, dest, offset, w) ==
    IF w.res.tag # "Ok" THEN [res |-> w.res, dest |-> Slice(dest, 0, offset) \o w.dest]
    ELSE WriteQuestions(qd, k + 1, Slice(dest, 0, offset) \o w.dest, offset + w.res.n)

\* the loop of Message::write over self.qd from question k on
WriteQuestions(qd, k, dest, offset) ==
    IF k > Len(qd) THEN [res |-> [tag |-> "Ok", kind |-> "usize", n |-> offset],
                         dest |-> dest]
    ELSE Let(QuestionWrite(qd[k], SliceFrom(dest, offset)),
             LAMBDA w : QuestionAdded(qd, k, dest, offset, w))

\* Message::write after self.hdr.write, which returned h
HeaderWritten(m, h) ==
    IF h.res.tag # "Ok" THEN h ELSE WriteQuestions(m.qd, 1, h.dest, HEADER_LENGTH)

\* Message::write: the result and the destination buffer afterwards
MessageWrite(m, dest) == Let(HeaderWrite(m.hdr, dest), LAMBDA h : HeaderWritten(m, h))

\* Message::new_query after domain_to_labels, which returned qname; id is the
\* value of rand::random()
QueryFor(qname, t, class, recursion, id) ==
    IF qname.tag # "Ok" THEN qname
    ELSE [tag |-> "Ok", kind |-> "message", n |-> 0,
          msg |-> [hdr |-> [HeaderDefault EXCEPT !.id = id, !.qr = FALSE,
                                                 !.qdcount = 1, !.rd = recursion,
                                                 !.opcode = StandardQuery],
                   qd |-> <<[qname |-> qname.labels, qtype |-> t, qclass |-> class]>>,
                   an |-> <<>>, ar |-> <<>>, ns |-> <<>>]]

\* Message::new_query, id being the value of rand::random()
NewQuery(domain, t, class, recursion, id) ==
    Let(DomainToLabels(domain), LAMBDA qname : QueryFor(qname, t, class, recursion, id))

----------------------------------------------------------------------------
(* main.rs                                                                 *)

\* Ipv4Addr::new(198, 41, 0, 4), the root server both main and
\* resolve_dns_inner name well_known
WELL_KNOWN == <<198, 41, 0, 4>>

\* the depth beyond which resolve_dns_inner gives up
MAX_DEPTH == 3

\* the size of the buffers of do_query
BUFFER_LENGTH == 1600

\* Option<Ipv4Addr>; NoRet stands for no call having returned
None == [tag |-> "None", addr |-> <<>>]
Some(addr) == [tag |-> "Some", addr |-> addr]
NoRet == [tag |-> "NoRet", addr |-> <<>>]

\* an invocation of resolve_dns_inner that has not started to run; msg and rb
\* are what do_query returns to it, i and site the call it waits for
Frame(depth, domain, saddr) ==
    [depth |-> depth, domain |-> domain, saddr |-> saddr, pc |-> "start",
     msg |-> <<>>, rb |-> <<>>, i |-> 0, site |-> "none"]

\* the buffer do_query returns: the bytes received, in 1600 bytes
RawOf(fr) == fr.rb \o Zeros(BUFFER_LENGTH - Len(fr.rb))

\* do_query after query_msg.write(&mut qb[..]), which returned w: the bytes
\* &qb[..w] it goes on to send, a panic when the unwrap meets an error
QueryWritten(w) ==
    IF w.res.tag # "Ok" THEN Panic
    ELSE [tag |-> "Ok", kind |-> "bytes", qb |-> Slice(w.dest, 0, w.res.n)]

\* do_query after Message::new_query, which returned q
QueryBuilt(q) ==
    IF q.tag # "Ok" THEN Panic
    ELSE Let(MessageWrite(q.msg, Zeros(BUFFER_LENGTH)), LAMBDA w : QueryWritten(w))

\* do_query up to the send: the datagram for domain, or the panic of one of
\* the unwraps on new_query and write; id is the value of rand::random()
QueryBytes(domain, id) ==
    Let(NewQuery(domain, 1, 1, FALSE, id), LAMBDA q : QueryBuilt(q))

\* HashMap::new()
EmptyMap == [k \in {} |-> <<>>]

\* ns_map.insert(k, v)
MapInsert(m, k, v) == [x \in DOMAIN m \cup {k} |-> IF x = k THEN v ELSE m[x]]

\* the depth guard one level late
DepthExceededLate(depth) == depth > MAX_DEPTH + 1

\* the depth guard of resolve_dns_inner
DepthExceeded(depth) == depth > MAX_DEPTH

Call(i, site, child, map) ==
    [kind |-> "call", i |-> i, site |-> site, child |-> child, v |-> NoRet, map |-> map]
Return(v, map) ==
    [kind |-> "ret", i |-> 0, site |-> "none", child |-> <<>>, v |-> v, map |-> map]
Abort(map) ==
    [kind |-> "panic", i |-> 0, site |-> "none", child |-> <<>>, v |-> NoRet, map |-> map]

\* the scan of the answer section from record k on: the return of the address
\* of the first record of type 1, "none" when there is none, a panic on rdata
\* of under 4 bytes
RECURSIVE FirstAnswer(_, _, _)
FirstAnswer(an, k, map) ==
    IF k > Len(an) THEN [kind |-> "none"]
    ELSE IF an[k].t # 1 THEN FirstAnswer(an, k + 1, map)
    ELSE IF Len(an[k].rdata) < 4 THEN Abort(map)
    ELSE Return(Some(Slice(an[k].rdata, 0, 4)), map)

RECURSIVE NsLoop(_, _, _, _)

\* the body of the loop over msg.ns for a record of type 1 and class 1, whose
\* name resolve_labels has resolved into r
NsInsert(ns, raw, map, k, r) ==
    IF r.res.tag # "Ok" \/ Len(ns[k].rdata) < 4 THEN [kind |-> "panic", map |-> map]
    ELSE NsLoop(ns, raw, MapInsert(map, r.res.domain, Slice(ns[k].rdata, 0, 4)), k + 1)

\* the loop over msg.ns from record k on: the map with the address of every
\* record of type 1 and class 1 inserted under its owner name
NsLoop(ns, raw, map, k) ==
    IF k > Len(ns) THEN [kind |-> "ok", map |-> map]
    ELSE IF ~(ns[k].t = 1 /\ ns[k].class = 1) THEN NsLoop(ns, raw, map, k + 1)
    ELSE Let(ResolveLabels(raw, ns[k].name), LAMBDA r : NsInsert(ns, raw, map, k, r))

\* resolve_labels(&raw[..], &mut labels).unwrap() on what
\* parse_label_bytes(rdata).unwrap() returned
ArResolved(p, raw) ==
    IF p.tag # "Ok" THEN Panic ELSE ResolveLabels(raw, p.labels).res

\* the name an NS record's rdata holds
ArDomain(rdata, raw) == Let(ParseLabelBytes(rdata), LAMBDA p : ArResolved(p, raw))

\* the call that resolves the name server's own name from the root
NsLookup(fr, i, ar_domain, map) ==
    Call(i, "nslookup", Frame(fr.depth + 1, ar_domain, WELL_KNOWN), map)

RECURSIVE ArLoop(_, _, _)

\* the body of the loop over msg.ar for record i of type 2, whose rdata holds
\* the name d
ArCandidate(fr, map, i, d) ==
    IF d.tag # "Ok" THEN Abort(map)
    ELSE IF fr.domain = d.domain THEN ArLoop(fr, map, i + 1)
    ELSE IF d.domain \in DOMAIN map THEN
        Call(i, "glue", Frame(fr.depth + 1, fr.domain, map[d.domain]), map)
    ELSE NsLookup(fr, i, d.domain, map)

\* the loop over msg.ar from record i on, up to its next recursive call or to
\* the return that follows the loop
ArLoop(fr, map, i) ==
    IF i > Len(fr.msg.ar) THEN Return(None, map)
    ELSE IF fr.msg.ar[i].t # 2 THEN ArLoop(fr, map, i + 1)
    ELSE Let(ArDomain(fr.msg.ar[i].rdata, RawOf(fr)),
             LAMBDA d : ArCandidate(fr, map, i, d))

\* resolve_dns_inner after the loop over msg.ns, which returned m2
AfterNsLoop(fr, m2) ==
    IF m2.kind = "panic" THEN Abort(m2.map) ELSE ArLoop(fr, m2.map, 1)

\* resolve_dns_inner after the scan of the answer section, which returned
\* answer
AfterAnswers(fr, map, answer) ==
    IF answer.kind # "none" THEN answer
    ELSE Let(NsLoop(fr.msg.ns, RawOf(fr), map, 1), LAMBDA m2 : AfterNsLoop(fr, m2))

\* a test of the response code that lets every code pass
ErrorRcodeIgnored(rcode) == FALSE

\* the test of the response code
ErrorRcode(rcode) == rcode # NoError

\* resolve_dns_inner from the response just received up to its first
\* recursive call or its return
AfterResponse(fr, map) ==
    IF ErrorRcode(fr.msg.hdr.rcode) THEN Return(None, map)
    ELSE Let(IF fr.msg.hdr.ancount > 0 THEN FirstAnswer(fr.msg.an, 1, map)
             ELSE [kind |-> "none"],
             LAMBDA answer : AfterAnswers(fr, map, answer))

\* what resolve_dns_inner does with the result v of the call made with the
\* server address found in ns_map
AfterGlue(fr, v, map) ==
    IF v.tag = "Some" THEN Return(v, map)
    ELSE NsLookup(fr, fr.i, ArDomain(fr.msg.ar[fr.i].rdata, RawOf(fr)).domain, map)

\* the address of the name server's own name returned as the result
AfterNsLookupReturned(fr, v, map) ==
    IF v.tag = "Some" THEN Return(v, map) ELSE ArLoop(fr, map, fr.i + 1)

\* what resolve_dns_inner does with the result v of resolving the name
\* server's own name
AfterNsLookup(fr, v, map) ==
    IF v.tag = "Some" THEN Call(fr.i, "retry", Frame(fr.depth + 1, fr.domain, v.addr), map)
    ELSE ArLoop(fr, map, fr.i + 1)

\* a retry whose result is dropped: the loop goes on to the next record
AfterRetryDropped(fr, v, map) == ArLoop(fr, map, fr.i + 1)

\* what resolve_dns_inner does with the result v of the call made with the
\* address the name server's name resolved to
AfterRetry(fr, v, map) ==
    IF v.tag = "Some" THEN Return(v, map)
    ELSE ArLoop(fr, map, fr.i + 1)

\* resolve_dns_inner from the return of the call it waits for up to its next
\* recursive call or its return
AfterCall(fr, v, map) ==
    CASE fr.site = "glue" -> AfterGlue(fr, v, map)
      [] fr.site = "nslookup" -> AfterNsLookup(fr, v, map)
      [] OTHER -> AfterRetry(fr, v, map)

----------------------------------------------------------------------------
(* Header round trip: write a header into a buffer, parse the buffer back  *)

Opcodes == {OpcodeFrom(v) : v \in {0, 1, 2, 3, 8, 15}}

ResponseCodes == {ResponseCodeFrom(v) : v \in {0, 3, 6, 15}}

HeaderIds == {0, 43981}

HeaderCounts == {<<0, 0, 0, 0>>, <<5, 3, 2, 7>>, <<65535, 256, 1, 255>>}

HeaderInputs ==
    {Header(id, qr, op, aa, tc, rd, ra, rc, c[1], c[2], c[3], c[4]) :
        id \in HeaderIds, qr \in BOOLEAN, op \in Opcodes, aa \in BOOLEAN,
        tc \in BOOLEAN, rd \in BOOLEAN, ra \in BOOLEAN, rc \in ResponseCodes,
        c \in HeaderCounts}

HeaderIdle ==
    /\ hdr = HeaderDefault
    /\ hdest = <<>>
    /\ hres = NotRun
    /\ hparsed = NotRun
    /\ hpc = "idle"

HeaderInit ==
    /\ hdr \in HeaderInputs
    /\ hdest \in {Zeros(n) : n \in {HEADER_LENGTH - 1, HEADER_LENGTH}}
    /\ hres = NotRun
    /\ hparsed = NotRun
    /\ hpc = "write"

\* initial_header.write(&mut buf)
DoHeaderWrite ==
    /\ hpc = "write"
    /\ LET w == HeaderWrite(hdr, hdest) IN
        /\ hres' = w.res
        /\ hdest' = w.dest
    /\ hpc' = "parse"
    /\ UNCHANGED <<hdr, hparsed>>
    /\ UNCHANGED <<lvars, rvars, rrvars, mvars, dvars>>

\* Header::parse(&buf[..])
DoHeaderParse ==
    /\ hpc = "parse"
    /\ hparsed' = HeaderParse(hdest)
    /\ hpc' = "done"
    /\ UNCHANGED <<hdr, hdest, hres>>
    /\ UNCHANGED <<lvars, rvars, rrvars, mvars, dvars>>

HeaderNext == DoHeaderWrite \/ DoHeaderParse

----------------------------------------------------------------------------
(* Label round trip: write a label sequence, parse the written bytes back  *)

\* the longest label sequence written
MaxLabels == 2

\* the room in the destination beyond the longest serialization
DestSlack == 1

\* Strings: "", "a", "ab", "e-acute", "a.b", ".", "a."
LabelStrings == {<<>>, <<97>>, <<97, 98>>, <<195, 169>>}

Domains == {<<>>, <<97>>, <<97, 46, 98>>, <<46>>, <<97, 46>>, <<195, 169, 46, 97, 98>>}

RECURSIVE SeqsUpTo(_, _)
SeqsUpTo(S, n) ==
    IF n = 0 THEN {<<>>}
    ELSE SeqsUpTo(S, n - 1) \cup
         {Append(q, x) : q \in {r \in SeqsUpTo(S, n - 1) : Len(r) = n - 1}, x \in S}

\* label sequences with a pointer: alone, after a label, before a label
PointerInputs == {<<P(15)>>, <<L(<<97>>), P(300)>>, <<P(16383), L(<<97>>)>>}

\* label sequences built by hand or by domain_to_labels
LabelInputs ==
    SeqsUpTo({L(s) : s \in LabelStrings}, MaxLabels)
        \cup {DomainToLabels(d).labels : d \in Domains}
        \cup PointerInputs

\* no label of ls is a pointer
NoPointer(ls) == \A k \in 1..Len(ls) : ls[k].tag = "L"

\* the value of idx that the for loop of write_labels and its tail reach from
\* label k on when the destination has room: a literal label takes its length
\* octet and its bytes, a pointer takes 2 bytes and ends the loop, and the
\* zero octet follows the last label unless a pointer was written
RECURSIVE WireLenFrom(_, _)
WireLenFrom(ls, k) ==
    IF k > Len(ls) THEN 1
    ELSE IF ls[k].tag = "P" THEN 2
    ELSE 1 + Len(ls[k].s) + WireLenFrom(ls, k + 1)

\* the number of bytes write_labels writes when the destination has room
WireLen(ls) == IF Len(ls) = 0 THEN 0 ELSE WireLenFrom(ls, 1)

LabelIdle ==
    /\ labels = <<>>
    /\ ldest = <<>>
    /\ lres = NotRun
    /\ lparsed = NotRun
    /\ lpc = "idle"

LabelInit ==
    /\ labels \in LabelInputs
    /\ ldest \in {Zeros(n) : n \in 0..(3 * MaxLabels + 1 + DestSlack)}
    /\ lres = NotRun
    /\ lparsed = NotRun
    /\ lpc = "write"

\* write_labels(&labels, d.as_mut_slice())
DoWriteLabels ==
    /\ lpc = "write"
    /\ LET w == WriteLabels(labels, ldest) IN
        /\ lres' = w.res
        /\ ldest' = w.dest
    /\ lpc' = "parse"
    /\ UNCHANGED <<labels, lparsed>>
    /\ UNCHANGED <<hvars, rvars, rrvars, mvars, dvars>>

\* parse_label_bytes(&d[..n]) on the n bytes written
DoParseWritten ==
    /\ lpc = "parse"
    /\ lparsed' = IF lres.tag = "Ok" THEN ParseLabelBytes(Slice(ldest, 0, lres.n))
                  ELSE NotRun
    /\ lpc' = "done"
    /\ UNCHANGED <<labels, ldest, lres>>
    /\ UNCHANGED <<hvars, rvars, rrvars, mvars, dvars>>

LabelNext == DoWriteLabels \/ DoParseWritten

----------------------------------------------------------------------------
(* Pointer resolution: resolve_labels run on a message, one loop iteration *)
(* per step                                                                *)

\* the longest message buffer enumerated byte by byte
MaxMsgLen == 4

\* buffer bytes: the terminator, two bytes that serve as label length, label
\* content and pointer offset, and the pointer mark
MsgBytes == {0, 1, 2, 192}

\* a message of k pointers, each to the next, ending in the name "a"
ChainMsg(k) == [i \in 1..(2 * k) |-> IF i % 2 = 1 THEN 192 ELSE i] \o <<1, 97, 0>>

MsgInputs == SeqsUpTo(MsgBytes, MaxMsgLen)

ResolveInputs ==
    {<<>>, <<L(<<97>>)>>}
        \cup {<<P(o)>> : o \in 0..(MaxMsgLen + 1)}
        \cup {<<L(<<97>>), P(o)>> : o \in 0..(MaxMsgLen + 1)}

ResolveIdle ==
    /\ rmsg = <<>>
    /\ rinput = <<>>
    /\ rlabels = <<>>
    /\ iter_count = 0
    /\ rres = NotRun

ResolveInit ==
    /\ \/ rmsg \in MsgInputs /\ rinput \in ResolveInputs
       \/ /\ rmsg \in {ChainMsg(k) : k \in (MAX_LABEL_RESOLVE_DEPTH - 1)..(MAX_LABEL_RESOLVE_DEPTH + 1)}
          /\ rinput \in {<<P(0)>>, <<P(2)>>, <<L(<<97>>), P(4)>>}
    /\ rlabels = rinput
    /\ iter_count = 0
    /\ rres = Running

\* one iteration of the loop of resolve_labels
DoResolveStep ==
    /\ rres.tag = "Running"
    /\ LET st == ResolveStep(rmsg, [labels |-> rlabels, iter_count |-> iter_count,
                                    res |-> rres])
       IN  /\ rlabels' = st.labels
           /\ iter_count' = st.iter_count
           /\ rres' = st.res
    /\ UNCHANGED <<rmsg, rinput>>
    /\ UNCHANGED <<hvars, lvars, rrvars, mvars, dvars>>

ResolveNext == DoResolveStep

----------------------------------------------------------------------------
(* ResourceRecord::parse run on a buffer                                   *)

\* the most rdata bytes a record declares or carries
MaxRdata == 3

RrNames == {<<0>>, <<1, 97, 0>>, <<192, 12>>}

\* the ten fixed bytes: type, class IN, ttl, rdlength
RrFixed(t, rdlength) == ToBe16(t) \o <<0, 1>> \o <<0, 0, 1, 44>> \o ToBe16(rdlength)

\* a record with all its rdata, cut after its first k bytes
RrInputs ==
    {Slice(full, 0, IF k < Len(full) THEN k ELSE Len(full)) :
        full \in {name \o RrFixed(t, rdlength) \o [i \in 1..MaxRdata |-> 7] :
                    name \in RrNames, t \in {1, 2}, rdlength \in 0..(MaxRdata + 1)},
        k \in 0..(MaxRdata + 13)}

RrIdle ==
    /\ rrbuf = <<>>
    /\ rrres = NotRun

RrInit ==
    /\ rrbuf \in RrInputs
    /\ rrres = NotRun

\* ResourceRecord::parse(&b[..])
DoRrParse ==
    /\ rrres = NotRun
    /\ rrres' = ResourceRecordParse(rrbuf)
    /\ UNCHANGED rrbuf
    /\ UNCHANGED <<hvars, lvars, rvars, mvars, dvars>>

RrNext == DoRrParse

----------------------------------------------------------------------------
(* Message::parse run on a buffer                                          *)

\* the most entries that follow the header in a buffer
MaxChunks == 3

\* the section counts a header declares: qdcount, ancount, arcount, nscount
SectionCounts ==
    {<<qd, an, ar, ns>> : qd \in 0..2, an \in 0..1, ar \in 0..1, ns \in 0..1}

\* entries as they appear on the wire: a question for the root name, a question
\* whose name is a pointer to offset 12, a record without rdata, a record with
\* a pointer name and one rdata byte, a record cut one byte short of its rdata,
\* and a name with nothing after it
Chunks ==
    {<<0, 0, 1, 0, 1>>,
     <<192, 12, 0, 1, 0, 1>>,
     <<0>> \o RrFixed(1, 0),
     <<192, 12>> \o RrFixed(2, 1) \o <<7>>,
     <<0>> \o RrFixed(1, 2) \o <<7>>,
     <<1, 97, 0>>}

RECURSIVE Concat(_)
Concat(ss) == IF ss = <<>> THEN <<>> ELSE Head(ss) \o Concat(Tail(ss))

\* the twelve header bytes of a response with the given code and counts
WireHeader(rcode, qd, an, ar, ns) ==
    HeaderWrite(Header(7, TRUE, StandardQuery, FALSE, FALSE, FALSE, FALSE, rcode,
                       qd, an, ar, ns), Zeros(HEADER_LENGTH)).dest

MessageInputs ==
    {WireHeader(NoError, c[1], c[2], c[3], c[4]) \o Concat(body) :
        c \in SectionCounts, body \in SeqsUpTo(Chunks, MaxChunks)}

MessageIdle ==
    /\ mbuf = <<>>
    /\ mres = NotRun

MessageInit ==
    /\ mbuf \in MessageInputs \cup {Slice(Zeros(HEADER_LENGTH), 0, HEADER_LENGTH - 1)}
    /\ mres = NotRun

\* Message::parse(&rb[..r])
DoMessageParse ==
    /\ mres = NotRun
    /\ mres' = MessageParse(mbuf)
    /\ UNCHANGED mbuf
    /\ UNCHANGED <<hvars, lvars, rvars, rrvars, dvars>>

MessageNext == DoMessageParse

----------------------------------------------------------------------------
(* The resolver: main calls resolve_dns, the servers answer as they please *)

\* the target "d", the name servers "n" and "m"
TargetDomain == <<100>>
NameN == <<110>>
NameM == <<109>>

\* a target whose only label has 64 bytes, one more than domain_to_labels
\* accepts
LongLabelDomain == [i \in 1..64 |-> 97]

\* the domains main may be given
Targets == {TargetDomain, LongLabelDomain}

\* a name server whose label is 22 bytes that are not UTF-8: from_utf8_lossy
\* makes a string of 66 bytes of it
NameLossy == [i \in 1..22 |-> 255]

\* the values rand::random() may give a query for its id
QueryIds == {0, 65535}

Addr1 == <<10, 0, 0, 1>>
Addr2 == <<10, 0, 0, 2>>

\* a name on the wire
WireName(str) == <<Len(str)>> \o str \o <<0>>

\* a resource record on the wire
WireRr(name, t, class, rdata) ==
    name \o ToBe16(t) \o ToBe16(class) \o <<0, 0, 1, 44>> \o ToBe16(Len(rdata)) \o rdata

\* the question every response echoes, 7 bytes from offset 12 on
WireQuestion == WireName(TargetDomain) \o <<0, 1, 0, 1>>

\* a response on the wire: the answers, then the NS records of the authority
\* section (which Message::parse keeps in ar), then the address records of the
\* additional section (which it keeps in ns)
WireResponse(rcode, answers, authority, additional) ==
    WireHeader(rcode, 1, Len(answers), Len(authority), Len(additional))
        \o WireQuestion \o Concat(answers) \o Concat(authority) \o Concat(additional)

ARecord(owner, addr) == WireRr(WireName(owner), 1, 1, addr)
NsRecord(nsname) == WireRr(WireName(TargetDomain), 2, 1, WireName(nsname))
\* an NS record whose rdata is a pointer to the question's name
NsRecordToQuestion == WireRr(WireName(TargetDomain), 2, 1, <<192, 12>>)
\* an NS record owned by "n" at offset 19 whose rdata points to its owner
NsRecordCompressed == WireRr(WireName(NameN), 2, 1, <<192, 19>>)

\* an error with records in every section
ErrorResponse ==
    WireResponse(NameError, <<ARecord(TargetDomain, Addr1)>>, <<NsRecord(NameN)>>,
                 <<ARecord(NameN, Addr2)>>)

AnswerResponses ==
    {WireResponse(NoError, <<ARecord(TargetDomain, Addr1)>>, <<>>, <<>>),
     WireResponse(NoError,
                  <<WireRr(WireName(TargetDomain), 28, 1, Zeros(16)),
                    ARecord(TargetDomain, Addr2)>>, <<>>, <<>>)}

ReferralResponses ==
    {\* a referral to n with glue
     WireResponse(NoError, <<>>, <<NsRecordCompressed>>, <<ARecord(NameN, Addr1)>>),
     \* a referral to the queried name, to n and to m, with glue for m
     WireResponse(NoError, <<>>, <<NsRecordToQuestion, NsRecord(NameN), NsRecord(NameM)>>,
                  <<ARecord(NameM, Addr2)>>),
     \* a referral without glue to a name server whose label is not UTF-8
     WireResponse(NoError, <<>>, <<NsRecord(NameLossy)>>, <<>>)}

\* what a server may answer when the exchange completes with a well-formed
\* response
Responses == {ErrorResponse} \cup AnswerResponses \cup ReferralResponses

\* a response cut short in its last record
MalformedResponse ==
    Slice(ErrorResponse, 0, Len(ErrorResponse) - 2)

ResolverIdle ==
    /\ stack = <<>>
    /\ ret = NoRet
    /\ ns_map = EmptyMap
    /\ outcome = NotRun

\* main: resolve_dns(0, domain, &socket, well_known), which makes the map
ResolverInit ==
    /\ stack \in {<<Frame(0, domain, WELL_KNOWN)>> : domain \in Targets}
    /\ ret = NoRet
    /\ ns_map = EmptyMap
    /\ outcome = Running

Top == stack[Len(stack)]
Pop == SubSeq(stack, 1, Len(stack) - 1)

\* the invocation on top of the stack goes on as r says
Proceed(r) ==
    /\ ns_map' = r.map
    /\ CASE r.kind = "call" ->
                /\ stack' = Append([stack EXCEPT ![Len(stack)] =
                                        [@ EXCEPT !.pc = "wait", !.i = r.i,
                                                  !.site = r.site]],
                                   r.child)
                /\ ret' = NoRet
                /\ UNCHANGED outcome
         [] r.kind = "ret" ->
                /\ stack' = Pop
                /\ ret' = r.v
                /\ UNCHANGED outcome
         [] OTHER ->
                /\ outcome' = Panic
                /\ UNCHANGED <<stack, ret>>

\* resolve_dns_inner is entered beyond the depth bound
DepthGuard ==
    /\ outcome = Running /\ stack # <<>> /\ Top.pc = "start"
    /\ DepthExceeded(Top.depth)
    /\ stack' = Pop
    /\ ret' = None
    /\ UNCHANGED <<ns_map, outcome>>
    /\ UNCHANGED <<hvars, lvars, rvars, rrvars, mvars>>

\* do_query once Message::parse(&rb[..r]) has returned parsed
Received(rb, parsed) ==
    IF parsed.tag = "Ok"
    THEN /\ stack' = [stack EXCEPT ![Len(stack)] =
                         [@ EXCEPT !.pc = "handle", !.msg = parsed.msg, !.rb = rb]]
         /\ UNCHANGED outcome
    ELSE \* Message::parse(&rb[..r]).unwrap()
         /\ outcome' = Panic
         /\ UNCHANGED stack

\* do_query once it has built the query, which gave q: a panic before
\* anything is sent, or the exchange that brings the bytes rb
Exchange(q, rb) ==
    IF q.tag # "Ok"
    THEN \* new_query(domain, 1, 1, false).unwrap(), write(&mut qb[..]).unwrap()
         /\ outcome' = Panic
         /\ UNCHANGED stack
    ELSE \E parsed \in {MessageParse(rb)} : Received(rb, parsed)

\* do_query: the query is built and, unless that fails, sent, and the bytes
\* rb come back
Query(rb) ==
    /\ outcome = Running /\ stack # <<>> /\ Top.pc = "start"
    /\ ~DepthExceeded(Top.depth)
    /\ \E id \in QueryIds : \E q \in {QueryBytes(Top.domain, id)} : Exchange(q, rb)
    /\ UNCHANGED <<ret, ns_map>>
    /\ UNCHANGED <<hvars, lvars, rvars, rrvars, mvars>>

\* do_query: the query is built, then send_to or recv fails or times out, and
\* resolve_dns_inner unwraps the error
QueryFails ==
    /\ outcome = Running /\ stack # <<>> /\ Top.pc = "start"
    /\ ~DepthExceeded(Top.depth)
    /\ \E id \in QueryIds : QueryBytes(Top.domain, id).tag = "Ok"
    /\ outcome' = Panic
    /\ UNCHANGED <<stack, ret, ns_map>>
    /\ UNCHANGED <<hvars, lvars, rvars, rrvars, mvars>>

\* resolve_dns_inner works on the response up to its first call or its return
Handle ==
    /\ outcome = Running /\ stack # <<>> /\ Top.pc = "handle"
    /\ \E r \in {AfterResponse(Top, ns_map)} : Proceed(r)
    /\ UNCHANGED <<hvars, lvars, rvars, rrvars, mvars>>

\* a call returns into resolve_dns_inner, which goes on up to its next call or
\* its return
Resume ==
    /\ outcome = Running /\ stack # <<>> /\ ret # NoRet
    /\ \E r \in {AfterCall(Top, ret, ns_map)} : Proceed(r)
    /\ UNCHANGED <<hvars, lvars, rvars, rrvars, mvars>>

\* resolve_dns returns to main, which prints the result
Finish ==
    /\ outcome = Running /\ stack = <<>> /\ ret # NoRet
    /\ outcome' = IF ret.tag = "Some" THEN [tag |-> "Found", kind |-> ret.addr]
                  ELSE [tag |-> "NotFound", kind |-> "none"]
    /\ UNCHANGED <<stack, ret, ns_map>>
    /\ UNCHANGED <<hvars, lvars, rvars, rrvars, mvars>>

\* every exchange completes with a well-formed response
ResolverNextOk ==
    \/ DepthGuard
    \/ \E rb \in Responses : Query(rb)
    \/ Handle
    \/ Resume
    \/ Finish

\* exchanges may also fail or bring bytes that do not parse
ResolverNext ==
    \/ DepthGuard
    \/ \E rb \in Responses \cup {MalformedResponse} : Query(rb)
    \/ QueryFails
    \/ Handle
    \/ Resume
    \/ Finish

----------------------------------------------------------------------------
(* Specifications: each runs one part of the program, the rest stays idle  *)

InitHeader ==
    HeaderInit /\ LabelIdle /\ ResolveIdle /\ RrIdle /\ MessageIdle /\ ResolverIdle

SpecHeader ==
    InitHeader
        /\ [][HeaderNext]_vars

InitLabel ==
    LabelInit /\ HeaderIdle /\ ResolveIdle /\ RrIdle /\ MessageIdle /\ ResolverIdle

SpecLabel ==
    InitLabel
        /\ [][LabelNext]_vars

InitResolve ==
    ResolveInit /\ HeaderIdle /\ LabelIdle /\ RrIdle /\ MessageIdle /\ ResolverIdle

SpecResolve ==
    InitResolve
        /\ [][ResolveNext]_vars

\* the loop of resolve_labels runs on until the function returns
SpecResolveFair == SpecResolve /\ WF_vars(ResolveNext)

InitRr ==
    RrInit /\ HeaderIdle /\ LabelIdle /\ ResolveIdle /\ MessageIdle /\ ResolverIdle

SpecRr ==
    InitRr
        /\ [][RrNext]_vars

InitMessage ==
    MessageInit /\ HeaderIdle /\ LabelIdle /\ ResolveIdle /\ RrIdle /\ ResolverIdle

SpecMessage ==
    InitMessage
        /\ [][MessageNext]_vars

InitResolver ==
    ResolverInit /\ HeaderIdle /\ LabelIdle /\ ResolveIdle /\ RrIdle /\ MessageIdle

SpecResolver ==
    InitResolver
        /\ [][ResolverNext]_vars

\* the program is single-threaded and every exchange ends within its timeout:
\* a resolution that can take a step takes it
SpecResolverOk ==
    InitResolver
        /\ [][ResolverNextOk]_vars /\ WF_vars(ResolverNextOk)

----------------------------------------------------------------------------
(* Properties                                                              *)

\* C1: for every valid header h, parsing the 12 bytes h.write produced gives
\* back a header equal to h in every field, the opcode included.
C1_HeaderRoundTrip ==
    (hpc = "done" /\ hres.tag = "Ok") =>
        (hparsed.tag = "Ok" /\ hparsed.hdr = hdr)

\* C2: for every label sequence without a pointer, the empty sequence and the
\* results of domain_to_labels included, if write_labels succeeds writing n
\* bytes then parse_label_bytes on those n bytes returns exactly (n, seq).
C2_LabelRoundTrip ==
    (lpc = "done" /\ lres.tag = "Ok" /\ NoPointer(labels)) =>
        (lparsed.tag = "Ok" /\ lparsed.n = lres.n /\ lparsed.labels = labels)

\* the offset the name at offset off of msg ends in, -1 if it ends otherwise
PointerAt(msg, off) ==
    IF off > Len(msg) THEN -1
    ELSE LET p == ParseLabelBytes(SliceFrom(msg, off)) IN
         IF p.tag = "Ok" /\ p.labels # <<>> /\ p.labels[Len(p.labels)].tag = "P"
         THEN p.labels[Len(p.labels)].offset ELSE -1

\* the chain of pointers from offset off goes on for n more pointers
RECURSIVE ChainGoesOn(_, _, _)
ChainGoesOn(msg, off, n) ==
    IF n = 0 THEN TRUE
    ELSE PointerAt(msg, off) # -1 /\ ChainGoesOn(msg, PointerAt(msg, off), n - 1)

\* the caller's labels end in a pointer whose chain never ends: followed for
\* more pointers than the message has offsets, it visits an offset twice
CyclicInput ==
    /\ rinput # <<>>
    /\ rinput[Len(rinput)].tag = "P"
    /\ rinput[Len(rinput)].offset < Len(rmsg)
    /\ ChainGoesOn(rmsg, rinput[Len(rinput)].offset, Len(rmsg) + 1)

\* C3: on a cyclic pointer chain resolve_labels follows at most 10 pointers,
\* never returns Ok, never faults, and ends with a ParseError.
C3_CycleDetected ==
    /\ [](CyclicInput =>
            /\ iter_count <= 10
            /\ rres.tag \in {"Running", "Err"}
            /\ (rres.tag = "Err" => rres = ParseError))
    /\ (CyclicInput ~> (rres = ParseError))

C3_Witness ==
    /\ CyclicInput
    /\ Len(rmsg) = 4
    /\ PointerAt(rmsg, rinput[Len(rinput)].offset) # rinput[Len(rinput)].offset
    /\ iter_count = 10
    /\ rres = ParseError

\* C5: resolve_labels returns Ok or a DnsError for every pointer offset, the
\* offsets at or beyond the end of the buffer included; it never faults.
C5_NoFault == rres.tag \in {"Running", "Ok", "Err"}

\* C4: when the name and the ten fixed bytes are present, a record that
\* declares more rdata than the buffer holds yields a ParseError, and one whose
\* rdata is present yields bytesConsumed = nameLength + 10 + rdlength.
C4_RdlengthBoundary ==
    LET name == ParseLabelBytes(rrbuf)
        nameLength == name.n
        rdlength == FromBe16(At(rrbuf, nameLength + 8), At(rrbuf, nameLength + 9))
        remaining == Len(rrbuf) - (nameLength + 10)
    IN  (rrres # NotRun /\ name.tag = "Ok" /\ Len(rrbuf) >= nameLength + 10) =>
            IF rdlength > remaining THEN rrres = ParseError
            ELSE rrres.tag = "Ok" /\ rrres.n = nameLength + 10 + rdlength

\* C9: when Message::parse succeeds, each list is as long as the header's
\* count for it, and the buffer is long enough to hold that many entries (a
\* question takes at least 5 bytes, a record at least 11).
C9_CountsMatch ==
    (mres.tag = "Ok") =>
        /\ Len(mres.msg.qd) = mres.msg.hdr.qdcount
        /\ Len(mres.msg.an) = mres.msg.hdr.ancount
        /\ Len(mres.msg.ar) = mres.msg.hdr.arcount
        /\ Len(mres.msg.ns) = mres.msg.hdr.nscount
        /\ mres.msg.hdr = HeaderParse(mbuf).hdr
        /\ Len(mbuf) >= HEADER_LENGTH + 5 * mres.msg.hdr.qdcount
                + 11 * (mres.msg.hdr.ancount + mres.msg.hdr.arcount
                            + mres.msg.hdr.nscount)

\* the list lengths of a parsed message, and the entries that parsed
C9_Witness ==
    /\ mres.tag = "Ok"
    /\ mres.msg.hdr.qdcount = 1 /\ Len(mres.msg.qd) = 1
    /\ mres.msg.hdr.ancount = 1 /\ Len(mres.msg.an) = 1
    /\ mres.msg.hdr.arcount = 1 /\ Len(mres.msg.ar) = 1
    /\ mres.msg.hdr.nscount = 0 /\ Len(mres.msg.ns) = 0

\* an invocation that has sent its query
Queried(fr) == fr.pc # "start"

\* C6: when every exchange completes with a well-formed response, no
\* invocation of depth greater than 3 sends a query, and the top-level call
\* ends with an address or with not-found.
C6_Terminates ==
    /\ [](\A k \in 1..Len(stack) : Queried(stack[k]) => stack[k].depth <= 3)
    /\ <>(outcome.tag \in {"Found", "NotFound"})

\* the depth guard has just returned not-found to an invocation of depth 3,
\* below referrals that carried no answer
C6_DepthGuardReached ==
    /\ Len(stack) = 4
    /\ Top.depth = 3 /\ Top.pc = "wait"
    /\ ret = None
    /\ \A k \in 1..4 : stack[k].msg.hdr.rcode = NoError /\ stack[k].msg.an = <<>>

\* do_query has faulted on a name it cannot put into a query: no datagram was
\* sent for it and the resolution ended in neither an address nor not-found
C6_Witness ==
    /\ outcome = Panic
    /\ stack # <<>> /\ Top.pc = "start"
    /\ \A id \in QueryIds : QueryBytes(Top.domain, id) = Panic

\* the resolution always ends, in an address, in not-found or in the fault of
\* do_query on a name it cannot put into a query, and no invocation of depth
\* above 3 sends a query
C6_TerminatesOrFaults ==
    /\ [](\A k \in 1..Len(stack) : Queried(stack[k]) => stack[k].depth <= MAX_DEPTH)
    /\ [](outcome = Panic =>
            (stack # <<>> /\ Top.pc = "start" /\ QueryBytes(Top.domain, 0) = Panic))
    /\ <>(outcome.tag \in {"Found", "NotFound", "Panic"})

\* C7: an invocation whose response has a code other than NoError returns
\* not-found as its next step, without a call and so without a query,
\* whatever records the response carries.
C7_ErrorEndsBranch ==
    [][(/\ outcome = Running /\ stack # <<>>
        /\ Top.pc = "handle"
        /\ Top.msg.hdr.rcode # NoError)
            => (stack' = Pop /\ ret' = None /\ outcome' = Running)]_vars

\* an invocation below the top level holds a NameError response with records
\* in every section
C7_Witness ==
    /\ outcome = Running /\ Len(stack) > 1
    /\ Top.pc = "handle"
    /\ Top.msg.hdr.rcode = NameError
    /\ Top.msg.an # <<>> /\ Top.msg.ar # <<>> /\ Top.msg.ns # <<>>

\* C8: whatever the cause of a resolution without an address (an error code,
\* a query that fails or times out, a response that does not parse, the depth
\* bound), the program's outcome is "Not found": it never ends otherwise.
C8_FailuresNotFound == outcome.tag \in {"Running", "Found", "NotFound"}

\* a call has returned to the invocation on top of the stack
Returned == outcome = Running /\ stack # <<>> /\ ret # NoRet

\* the step made the invocation on top call again, for record j
CallsAgain(j) ==
    /\ Len(stack') = Len(stack) + 1
    /\ stack'[Len(stack)].pc = "wait"
    /\ stack'[Len(stack)].i = j

\* the records are tried in their order: after a return without an address
\* the next call is for the same record (the next attempt at it) or for a
\* later one
InRecordOrder ==
    (Returned /\ Len(stack') = Len(stack) + 1) =>
        \E j \in Top.i..Len(Top.msg.ar) :
            /\ CallsAgain(j)
            /\ (j = Top.i) =>
                    <<Top.site, stack'[Len(stack)].site>> \in
                        {<<"glue", "nslookup">>, <<"nslookup", "retry">>}

\* C10 (as amended): the records are tried in their order, and as soon as a
\* call for the target domain (with the address from the map, or with the
\* address the name server's name resolved to) returns an address, the
\* invocation returns that address without a further call.
C10_FirstTargetAttemptWins ==
    [][/\ InRecordOrder
       /\ (Returned /\ ret.tag = "Some" /\ Top.site \in {"glue", "retry"})
            => (stack' = Pop /\ ret' = ret)]_vars

\* a retry has returned an address while later records remain
C10_Witness ==
    /\ Returned
    /\ Top.site = "retry"
    /\ ret.tag = "Some"
    /\ Top.i < Len(Top.msg.ar)

\* C10 (as written): as soon as any recursive call made for a record returns
\* an address, the invocation returns that address without a further call.
C10_AnyAttemptWins ==
    [][(Returned /\ ret.tag = "Some") => (stack' = Pop /\ ret' = ret)]_vars

\* the name a label sequence stands for in msg, found by following its
\* trailing pointer for as long as there is one, at most n times: whether the
\* name ends within n follows, the follows it took, and its labels
RECURSIVE FollowAll(_, _, _)
FollowAll(msg, ls, n) ==
    IF ls = <<>> \/ ls[Len(ls)].tag = "L" THEN [ok |-> TRUE, follows |-> 0, labels |-> ls]
    ELSE IF n = 0 \/ ls[Len(ls)].offset > Len(msg) THEN
        [ok |-> FALSE, follows |-> 0, labels |-> ls]
    ELSE Let(ParseLabelBytes(SliceFrom(msg, ls[Len(ls)].offset)),
             LAMBDA next :
                IF next.tag # "Ok" THEN [ok |-> FALSE, follows |-> 0, labels |-> ls]
                ELSE Let(FollowAll(msg, SubSeq(ls, 1, Len(ls) - 1) \o next.labels, n - 1),
                         LAMBDA r : [r EXCEPT !.follows = @ + 1]))

\* C11: a name whose chain of pointers ends within 10 follows, exactly 10 and
\* a literal label at the end included, resolves to its full name; only a
\* name that needs more than 10 follows gets the ParseError.
C11_BoundIsTen ==
    (rres.tag \in {"Ok", "Err", "Panic"}) =>
        Let(FollowAll(rmsg, rinput, 12),
            LAMBDA r :
                (r.ok /\ r.follows <= 10) =>
                    (rres.tag = "Ok" /\ rres.domain = JoinLabels(r.labels)))

\* resolve_labels has returned on a name that needs exactly 10 follows and ends
\* in a literal label
C11_Witness ==
    /\ rres.tag \in {"Ok", "Err", "Panic"}
    /\ Let(FollowAll(rmsg, rinput, 12),
           LAMBDA r : r.ok /\ r.follows = 10 /\ r.labels # <<>>)

\* C12: whenever the destination is shorter than the bytes the serialization
\* of the labels takes (length octets, label octets, the 2-byte pointer or the
\* terminating zero octet), write_labels returns a MarshalError; it never
\* faults.
C12_SpaceCheck ==
    (lpc # "write" /\ lres # NotRun /\ Len(ldest) < WireLen(labels)) =>
        lres = MarshalError

\* write_labels has run on a destination that holds the literal labels and
\* has no room for the terminating zero octet
C12_Witness ==
    /\ lpc # "write" /\ lres # NotRun
    /\ labels # <<>> /\ NoPointer(labels)
    /\ Len(ldest) = WireLen(labels) - 1

\* the name of the name server that record i of fr's response delegates to
CandidateName(fr) == ArDomain(fr.msg.ar[fr.i].rdata, RawOf(fr)).domain

\* fr's response carries a type-A class-IN record owned by name with the
\* address addr
GlueInResponse(fr, name, addr) ==
    \E k \in 1..Len(fr.msg.ns) :
        /\ fr.msg.ns[k].t = 1 /\ fr.msg.ns[k].class = 1
        /\ JoinLabels(fr.msg.ns[k].name) = name
        /\ Len(fr.msg.ns[k].rdata) >= 4
        /\ Slice(fr.msg.ns[k].rdata, 0, 4) = addr

\* the step made the invocation on top call with an address from ns_map
GlueCallMade ==
    /\ stack # <<>>
    /\ Len(stack') = Len(stack) + 1
    /\ stack'[Len(stack)].pc = "wait"
    /\ stack'[Len(stack)].site = "glue"

\* C13: the server address of a call made with an address from ns_map is the
\* address of a type-A class-IN record for the name server in the response
\* the calling invocation holds, never one that only an earlier response of
\* the resolution put into the map.
C13_GlueFromResponseInHand ==
    [][GlueCallMade =>
        GlueInResponse(stack'[Len(stack)], CandidateName(stack'[Len(stack)]),
                       stack'[Len(stack')].saddr)]_vars

\* a call with an address from ns_map is about to query, and the response its
\* caller holds has no address record for that name server
C13_Witness ==
    /\ outcome = Running /\ Len(stack) > 1
    /\ Top.pc = "start"
    /\ stack[Len(stack) - 1].site = "glue"
    /\ \A k \in 1..Len(stack[Len(stack) - 1].msg.ns) :
            JoinLabels(stack[Len(stack) - 1].msg.ns[k].name)
                # CandidateName(stack[Len(stack) - 1])

\* addr is the first 4 rdata bytes of the first record of type 1 among an
FirstTypeA(an, addr) ==
    \E k \in 1..Len(an) :
        /\ an[k].t = 1
        /\ \A j \in 1..(k - 1) : an[j].t # 1
        /\ addr = Slice(an[k].rdata, 0, 4)

\* the step made the invocation on top return an address
ReturnsAddress ==
    /\ outcome = Running /\ stack # <<>>
    /\ stack' = Pop
    /\ ret'.tag = "Some"

\* every call made for the caller's own domain is a call with an address from
\* ns_map or with the address the name server's name resolved to; the call
\* that resolves a name server's name is for another domain; main asks for
\* the target
CallsForDomain ==
    /\ stack # <<>> => stack[1].domain \in Targets
    /\ \A k \in 2..Len(stack) :
            (stack[k].domain = stack[k - 1].domain)
                <=> (stack[k - 1].site \in {"glue", "retry"})

\* C14: an invocation returns an address only as the first type-A record of
\* the answer section of the NoError response to its own query, or as the
\* address a call for the same domain returned; the address of a name
\* server's own name is never returned by the invocation that asked for it,
\* so the result for D comes from an answer to a query for D.
C14_Provenance ==
    /\ []CallsForDomain
    /\ [][ReturnsAddress =>
            \/ /\ Top.pc = "handle"
               /\ Top.msg.hdr.rcode = NoError
               /\ FirstTypeA(Top.msg.an, ret'.addr)
            \/ /\ Top.pc = "wait"
               /\ Top.site \in {"glue", "retry"}
               /\ ret' = ret]_vars

\* the address a name server's name resolved to is the server of a query for
\* the target, below the top level
C14_Witness ==
    /\ outcome = Running /\ Len(stack) > 1
    /\ stack[Len(stack) - 1].site = "retry"
    /\ Top.pc = "handle"
    /\ Top.domain = TargetDomain
    /\ Top.saddr # WELL_KNOWN
    /\ Top.msg.hdr.ancount > 0

====
